---- MODULE Spec2Model ----
(***************************************************************************)
(* RegionAllocator (src/src/lib.rs): a set of regions (base, size), each   *)
(* denoting the half-open interval [base, base + size), kept in a BTreeSet *)
(* ordered by (base, size).  The public operations add, subtract,          *)
(* add_or_subtract, allocate_by_addr and allocate_by_size are the actions; *)
(* the private helpers and the queries are operators.                      *)
(*                                                                         *)
(* Arguments are drawn with base + size <= MaxAddr, so that no usize       *)
(* addition of the code overflows (the code never checks for it).          *)
(***************************************************************************)
EXTENDS Integers, Sequences, FiniteSets

\* Bounds of the model.
MaxAddr == 4
MaxAlign == 4
WordBits == 6

Addr == 0..MaxAddr
Word == 2 ^ WordBits

\* struct Region { base, size }
Region == [base : Addr, size : Addr]

mk_region(base, size) == [base |-> base, size |-> size]

\* #[derive(Ord)] on Region: lexicographic on (base, size).
region_lt(a, b) == a.base < b.base \/ (a.base = b.base /\ a.size < b.size)

\* The least region of a non-empty set: where BTreeSet iteration starts.
first_region(S) == CHOOSE r \in S : \A q \in S : q = r \/ region_lt(r, q)

\* BTreeSet iteration order: ascending by (base, size).
RECURSIVE iter(_)
iter(S) ==
    IF S = {} THEN <<>>
    ELSE LET r == first_region(S) IN <<r>> \o iter(S \ {r})

min(a, b) == IF a < b THEN a ELSE b
max(a, b) == IF a > b THEN a ELSE b

\* The closure of drain_filter with strict bounds: adjacency is no touch.
touches_strict(r, region) ==
    ~(r.base >= region.base + region.size \/ r.base + r.size <= region.base)

\* The closure of drain_filter in intersection_all.
touches(r, region) ==
    ~(r.base > region.base + region.size \/ r.base + r.size < region.base)

\* intersection_all: drains the touching regions, in iteration order.
intersection_all(regs, region) ==
    LET hit == {r \in regs : touches(r, region)}
    IN  [regions |-> regs \ hit, overlaps |-> iter(hit)]

insert_internal(regs, a) == regs \union {a}

\* merge_internal taking a.base for the new base instead of the minimum.
merge_internal_no_min(a, b) ==
    LET a_end == a.base + a.size
        b_end == b.base + b.size
    IN  IF a_end < b.base \/ b_end < a.base
        THEN [a |-> a, ret |-> {b}]
        ELSE LET new_base == a.base
                 new_end == max(a_end, b_end)
                 new_size == new_end - new_base
             IN  [a |-> mk_region(new_base, new_size), ret |-> {}]

\* merge_internal keeping a's end instead of taking the maximum.
merge_internal_keep_end(a, b) ==
    LET a_end == a.base + a.size
        b_end == b.base + b.size
    IN  IF a_end < b.base \/ b_end < a.base
        THEN [a |-> a, ret |-> {b}]
        ELSE LET new_base == min(a.base, b.base)
                 new_end == a_end
                 new_size == new_end - new_base
             IN  [a |-> mk_region(new_base, new_size), ret |-> {}]

\* merge_internal handing the absorbed region back for reinsertion.
merge_internal_reinsert(a, b) ==
    LET a_end == a.base + a.size
        b_end == b.base + b.size
        new_base == min(a.base, b.base)
        new_end == max(a_end, b_end)
    IN  [a |-> mk_region(new_base, new_end - new_base), ret |-> {b}]

\* merge_internal(a: &mut Region, b) -> Option<Region>: the new a, and the
\* option as a set ({} is None, {b} is Some(b)).
merge_internal(a, b) ==
    LET a_end == a.base + a.size
        b_end == b.base + b.size
    IN  IF a_end < b.base \/ b_end < a.base
        THEN [a |-> a, ret |-> {b}]
        ELSE LET new_base == min(a.base, b.base)
                 new_end == max(a_end, b_end)
                 new_size == new_end - new_base
             IN  [a |-> mk_region(new_base, new_size), ret |-> {}]

\* subtract_internal that never returns the right remainder.
subtract_internal_no_right(target, src) ==
    LET left == IF src.base > target.base
                THEN {mk_region(target.base,
                                min(target.size, src.base - target.base))}
                ELSE {}
    IN  [left |-> left, right |-> {}]

\* subtract_internal whose left remainder keeps the size of the target.
subtract_internal_left_whole(target, src) ==
    LET t_end == target.base + target.size
        s_end == src.base + src.size
        left == IF src.base > target.base
                THEN {mk_region(target.base, target.size)}
                ELSE {}
        right == IF s_end < t_end
                 THEN LET size == min(target.size, t_end - s_end)
                      IN  {mk_region(t_end - size, size)}
                 ELSE {}
    IN  [left |-> left, right |-> right]

\* subtract_internal whose right remainder starts at the target's base.
subtract_internal_right_at_base(target, src) ==
    LET t_end == target.base + target.size
        s_end == src.base + src.size
        left == IF src.base > target.base
                THEN {mk_region(target.base,
                                min(target.size, src.base - target.base))}
                ELSE {}
        right == IF s_end < t_end
                 THEN {mk_region(target.base, min(target.size, t_end - s_end))}
                 ELSE {}
    IN  [left |-> left, right |-> right]

\* subtract_internal(target, src) -> (Option<Region>, Option<Region>),
\* each option as a set.
subtract_internal(target, src) ==
    LET t_end == target.base + target.size
        s_end == src.base + src.size
        left == IF src.base > target.base
                THEN {mk_region(target.base,
                                min(target.size, src.base - target.base))}
                ELSE {}
        right == IF s_end < t_end
                 THEN LET size == min(target.size, t_end - s_end)
                      IN  {mk_region(t_end - size, size)}
                 ELSE {}
    IN  [left |-> left, right |-> right]

\* The loop of add and its final insert.
RECURSIVE add_loop(_, _, _)
add_loop(regs, new_region, overlaps) ==
    IF overlaps = <<>> THEN insert_internal(regs, new_region)
    ELSE LET m == merge_internal(new_region, Head(overlaps))
             kept == IF m.ret = {} THEN regs
                     ELSE insert_internal(regs, CHOOSE b \in m.ret : TRUE)
         IN  add_loop(kept, m.a, Tail(overlaps))

add(regs, base, size) ==
    LET new_region == mk_region(base, size)
        d == intersection_all(regs, new_region)
    IN  add_loop(d.regions, new_region, d.overlaps)

\* The loop of subtract.
RECURSIVE subtract_loop(_, _, _)
subtract_loop(regs, new_region, overlaps) ==
    IF overlaps = <<>> THEN regs
    ELSE LET res == subtract_internal(Head(overlaps), new_region)
         IN  subtract_loop((regs \union res.left) \union res.right,
                           new_region, Tail(overlaps))

subtract(regs, base, size) ==
    LET new_region == mk_region(base, size)
        d == intersection_all(regs, new_region)
    IN  subtract_loop(d.regions, new_region, d.overlaps)

\* The containment test comparing the bases only.
contains_base_only(r, base, size) == r.base <= base /\ base <= r.base + r.size

\* The test of allocate_by_addr and allocate_by_size: r holds [base, base+size).
contains(r, base, size) == r.base <= base /\ base + size <= r.base + r.size

\* allocate_by_addr: the new set and the returned bool.
allocate_by_addr(regs, base, size) ==
    IF \E r \in regs : contains(r, base, size)
    THEN [regions |-> subtract(regs, base, size), ok |-> TRUE]
    ELSE [regions |-> regs, ok |-> FALSE]

\* Bitwise and of two words, bit by bit.
RECURSIVE bit_and(_, _, _)
bit_and(x, y, n) ==
    IF n = 0 THEN 0
    ELSE (x % 2) * (y % 2) + 2 * bit_and(x \div 2, y \div 2, n - 1)

\* !x on a word.
bit_not(x) == (Word - 1) - x

\* Number of one bits of a word.
RECURSIVE count_ones(_)
count_ones(x) == IF x = 0 THEN 0 ELSE (x % 2) + count_ones(x \div 2)

\* is_power_of_two accepting every non-zero word.
is_power_of_two_nonzero(x) == count_ones(x) >= 1

is_power_of_two(x) == count_ones(x) = 1

\* The aligned base rounded down: r.base & !align.
aligned_base_round_down(r_base, align) ==
    bit_and(r_base % Word, bit_not(align), WordBits)

\* (r.base + align) & !align, with align = alignment - 1.
aligned_base(r_base, align) ==
    bit_and((r_base + align) % Word, bit_not(align), WordBits)

\* Whether the loop of allocate_by_size stops at r.
size_fit(r, size, align) ==
    /\ ~(size > r.size)
    /\ contains(r, aligned_base(r.base, align), size)

\* allocate_by_size: the new set, whether Some was returned, and its pair.
allocate_by_size(regs, size, alignment) ==
    IF ~is_power_of_two(alignment)
    THEN [regions |-> regs, ok |-> FALSE, base |-> 0, size |-> 0]
    ELSE LET align == alignment - 1
             fits == {r \in regs : size_fit(r, size, align)}
         IN  IF fits = {}
             THEN [regions |-> regs, ok |-> FALSE, base |-> 0, size |-> 0]
             ELSE LET r == first_region(fits)
                      base == aligned_base(r.base, align)
                  IN  [regions |-> subtract(regs, base, size), ok |-> TRUE,
                       base |-> base, size |-> size]

check_region(regs, base, size) == mk_region(base, size) \in regs

len(regs) == Cardinality(regs)

is_empty(regs) == regs = {}

check_point(regs, addr) ==
    \E r \in regs : r.base <= addr /\ addr <= r.base + r.size

----------------------------------------------------------------------------
VARIABLES
    regions,  \* RegionAllocator.regions
    call,     \* the last public call: its name and arguments
    pre,      \* regions before the last call
    ret,      \* what the last call returned
    prior,    \* <<what preceded>> when the call before the last one pairs with it
    abs       \* the abstract set of covered addresses, run side by side

vars == <<regions, call, pre, ret, prior, abs>>

mk_call(op, base, size, alignment, is_add) ==
    [op |-> op, base |-> base, size |-> size, alignment |-> alignment,
     is_add |-> is_add]

mk_ret(ok, base, size) == [ok |-> ok, base |-> base, size |-> size]

\* The last call performed an add / a subtract, directly or by dispatch.
DidAdd ==
    call.op = "add" \/ (call.op = "add_or_subtract" /\ call.is_add)
DidSubtract ==
    call.op = "subtract" \/ (call.op = "add_or_subtract" /\ ~call.is_add)

\* What is remembered of the call before c: the set before an add(b, s) that
\* c = subtract(b, s) follows, or the result of a successful allocation that
\* c repeats; nothing otherwise.
link(c) ==
    IF \/ /\ DidAdd
          /\ c.op = "subtract" \/ (c.op = "add_or_subtract" /\ ~c.is_add)
          /\ c.base = call.base /\ c.size = call.size
       \/ /\ call.op \in {"allocate_by_addr", "allocate_by_size"}
          /\ ret.ok
          /\ c = call
    THEN <<[pre |-> pre, ret |-> ret]>>
    ELSE <<>>

Args == {bs \in Addr \X Addr : bs[1] + bs[2] <= MaxAddr}

\* A usize subtraction the code evaluates, and its mathematical result.
diff(expr, value) == [expr |-> expr, value |-> value]

\* merge_internal: new_end - new_base.
merge_internal_diffs(a, b) ==
    LET a_end == a.base + a.size
        b_end == b.base + b.size
    IN  IF a_end < b.base \/ b_end < a.base
        THEN {}
        ELSE {diff("new_end - new_base",
                   max(a_end, b_end) - min(a.base, b.base))}

\* subtract_internal evaluating src.base - target.base without its guard.
subtract_internal_diffs_unguarded(target, src) ==
    {diff("src.base - target.base", src.base - target.base)}

\* subtract_internal: src.base - target.base, t_end - s_end, t_end - size.
subtract_internal_diffs(target, src) ==
    LET t_end == target.base + target.size
        s_end == src.base + src.size
        left == IF src.base > target.base
                THEN {diff("src.base - target.base", src.base - target.base)}
                ELSE {}
        right == IF s_end < t_end
                 THEN LET size == min(target.size, t_end - s_end)
                      IN  {diff("t_end - s_end", t_end - s_end),
                           diff("t_end - size", t_end - size)}
                 ELSE {}
    IN  left \union right

\* The subtractions of the loop of add.
RECURSIVE add_loop_diffs(_, _)
add_loop_diffs(new_region, overlaps) ==
    IF overlaps = <<>> THEN {}
    ELSE merge_internal_diffs(new_region, Head(overlaps))
             \union add_loop_diffs(
                        merge_internal(new_region, Head(overlaps)).a,
                        Tail(overlaps))

add_diffs(regs, base, size) ==
    LET new_region == mk_region(base, size)
    IN  add_loop_diffs(new_region,
                       intersection_all(regs, new_region).overlaps)

\* The subtractions of the loop of subtract.
subtract_diffs(regs, base, size) ==
    LET new_region == mk_region(base, size)
        overlaps == intersection_all(regs, new_region).overlaps
    IN  UNION {subtract_internal_diffs(overlaps[i], new_region) :
                   i \in DOMAIN overlaps}

allocate_by_addr_diffs(regs, base, size) ==
    IF allocate_by_addr(regs, base, size).ok
    THEN subtract_diffs(regs, base, size)
    ELSE {}

\* allocate_by_size: alignment - 1, then the subtract of a match.
allocate_by_size_diffs(regs, size, alignment) ==
    IF ~is_power_of_two(alignment) THEN {}
    ELSE LET res == allocate_by_size(regs, size, alignment)
         IN  {diff("alignment - 1", alignment - 1)}
                 \union (IF res.ok THEN subtract_diffs(regs, res.base, size)
                         ELSE {})

\* The usize subtractions the last call evaluated, with their results.
diffs ==
    IF DidAdd THEN add_diffs(pre, call.base, call.size)
    ELSE IF DidSubtract THEN subtract_diffs(pre, call.base, call.size)
    ELSE IF call.op = "allocate_by_addr"
    THEN allocate_by_addr_diffs(pre, call.base, call.size)
    ELSE IF call.op = "allocate_by_size"
    THEN allocate_by_size_diffs(pre, call.size, call.alignment)
    ELSE {}

\* The addresses of [base, base + size).
range(base, size) == {x \in Addr : base <= x /\ x < base + size}

Init ==
    /\ regions = {}
    /\ call = mk_call("new", 0, 0, 0, FALSE)
    /\ pre = {}
    /\ ret = mk_ret(TRUE, 0, 0)
    /\ prior = <<>>
    /\ abs = {}

add_call(base, size) ==
    LET c == mk_call("add", base, size, 0, FALSE) IN
    /\ regions' = add(regions, base, size)
    /\ call' = c
    /\ pre' = regions
    /\ ret' = mk_ret(TRUE, 0, 0)
    /\ prior' = link(c)
    /\ abs' = abs \union range(base, size)

subtract_call(base, size) ==
    LET c == mk_call("subtract", base, size, 0, FALSE) IN
    /\ regions' = subtract(regions, base, size)
    /\ call' = c
    /\ pre' = regions
    /\ ret' = mk_ret(TRUE, 0, 0)
    /\ prior' = link(c)
    /\ abs' = abs \ range(base, size)

add_or_subtract_call(base, size, is_add) ==
    LET c == mk_call("add_or_subtract", base, size, 0, is_add) IN
    /\ regions' = IF is_add THEN add(regions, base, size)
                  ELSE subtract(regions, base, size)
    /\ call' = c
    /\ pre' = regions
    /\ ret' = mk_ret(TRUE, 0, 0)
    /\ prior' = link(c)
    /\ abs' = IF is_add THEN abs \union range(base, size)
              ELSE abs \ range(base, size)

allocate_by_addr_call(base, size) ==
    \E res \in {allocate_by_addr(regions, base, size)} :
        LET c == mk_call("allocate_by_addr", base, size, 0, FALSE) IN
        /\ regions' = res.regions
        /\ call' = c
        /\ pre' = regions
        /\ ret' = mk_ret(res.ok, base, size)
        /\ prior' = link(c)
        /\ abs' = IF res.ok THEN abs \ range(base, size) ELSE abs

allocate_by_size_call(size, alignment) ==
    \E res \in {allocate_by_size(regions, size, alignment)} :
        LET c == mk_call("allocate_by_size", 0, size, alignment, FALSE) IN
        /\ regions' = res.regions
        /\ call' = c
        /\ pre' = regions
        /\ ret' = mk_ret(res.ok, res.base, res.size)
        /\ prior' = link(c)
        /\ abs' = IF res.ok THEN abs \ range(res.base, res.size) ELSE abs

Add == \E bs \in Args : add_call(bs[1], bs[2])

Subtract == \E bs \in Args : subtract_call(bs[1], bs[2])

AddOrSubtract ==
    \E bs \in Args, is_add \in BOOLEAN :
        add_or_subtract_call(bs[1], bs[2], is_add)

AllocateByAddr == \E bs \in Args : allocate_by_addr_call(bs[1], bs[2])

AllocateBySize ==
    \E size \in Addr, alignment \in 0..MaxAlign :
        allocate_by_size_call(size, alignment)

Next ==
    \/ Add
    \/ Subtract
    \/ AddOrSubtract
    \/ AllocateByAddr
    \/ AllocateBySize

Spec == Init /\ [][Next]_vars

\* The same calls with every size > 0.
ArgsPos == {bs \in Args : bs[2] > 0}

PosAdd == \E bs \in ArgsPos : add_call(bs[1], bs[2])

PosSubtract == \E bs \in ArgsPos : subtract_call(bs[1], bs[2])

PosAddOrSubtract ==
    \E bs \in ArgsPos, is_add \in BOOLEAN :
        add_or_subtract_call(bs[1], bs[2], is_add)

PosAllocateByAddr == \E bs \in ArgsPos : allocate_by_addr_call(bs[1], bs[2])

PosAllocateBySize ==
    \E size \in Addr \ {0}, alignment \in 0..MaxAlign :
        allocate_by_size_call(size, alignment)

NextPos ==
    \/ PosAdd
    \/ PosSubtract
    \/ PosAddOrSubtract
    \/ PosAllocateByAddr
    \/ PosAllocateBySize

SpecPos == Init /\ [][NextPos]_vars

\* Runs of add and subtract that remember, at an add, the add before it:
\* the set before that add and its arguments.
link_add ==
    IF call.op = "add"
    THEN <<[pre |-> pre, ret |-> ret, base |-> call.base, size |-> call.size]>>
    ELSE <<>>

PairAdd ==
    \E bs \in Args :
        /\ regions' = add(regions, bs[1], bs[2])
        /\ call' = mk_call("add", bs[1], bs[2], 0, FALSE)
        /\ pre' = regions
        /\ ret' = mk_ret(TRUE, 0, 0)
        /\ prior' = link_add
        /\ abs' = abs \union range(bs[1], bs[2])

PairSubtract ==
    \E bs \in Args :
        /\ regions' = subtract(regions, bs[1], bs[2])
        /\ call' = mk_call("subtract", bs[1], bs[2], 0, FALSE)
        /\ pre' = regions
        /\ ret' = mk_ret(TRUE, 0, 0)
        /\ prior' = <<>>
        /\ abs' = abs \ range(bs[1], bs[2])

NextPair ==
    \/ PairAdd
    \/ PairSubtract

SpecPair == Init /\ [][NextPair]_vars

----------------------------------------------------------------------------
\* The addresses of the half-open intervals of a region set.
covered(regs) ==
    {x \in Addr : \E r \in regs : r.base <= x /\ x < r.base + r.size}

TypeOK ==
    /\ regions \subseteq Region
    /\ \A r \in regions : r.base + r.size <= MaxAddr


\* The powers of two a word can hold.
PowersOfTwo == {2 ^ k : k \in 0..(WordBits - 1)}

IsAllocation == call.op \in {"allocate_by_addr", "allocate_by_size"}

----------------------------------------------------------------------------
\* C1: in every reachable state no two distinct stored regions overlap or
\* are adjacent: r1.base + r1.size < r2.base or r2.base + r2.size < r1.base.
C1_NoOverlapNoAdjacent ==
    \A r1, r2 \in regions :
        r1 # r2 =>
            \/ r1.base + r1.size < r2.base
            \/ r2.base + r2.size < r1.base

\* C2: after add(base, size) the union of the stored half-open intervals is
\* the union before the call together with [base, base + size).
C2_AddIsUnion ==
    DidAdd =>
        covered(regions) = covered(pre) \union range(call.base, call.size)

\* An add that bridged stored regions with a non-empty range.
C2_Witness ==
    /\ DidAdd
    /\ call.size > 0
    /\ Cardinality(regions) < Cardinality(pre)
    /\ ~(range(call.base, call.size) \subseteq covered(pre))

\* C3: after subtract(base, size) no stored half-open interval meets
\* [base, base + size), and an address outside it is covered after the call
\* iff it was covered before.
C3_SubtractIsDifference ==
    DidSubtract =>
        /\ covered(regions) \intersect range(call.base, call.size) = {}
        /\ \A x \in Addr \ range(call.base, call.size) :
               x \in covered(regions) <=> x \in covered(pre)

\* A subtract that cut a stored region in two.
C3_Witness ==
    /\ DidSubtract
    /\ call.size > 0
    /\ Cardinality(regions) > Cardinality(pre)
    /\ covered(regions) # covered(pre)

\* C4: after subtract(b, s), check_point(x) is false for every x in
\* [b, b + s) and unchanged for every x outside it.
C4_SubtractSeenByCheckPoint ==
    DidSubtract =>
        /\ \A x \in range(call.base, call.size) : ~check_point(regions, x)
        /\ \A x \in Addr \ range(call.base, call.size) :
               check_point(regions, x) <=> check_point(pre, x)

\* C5: after add(b, s), check_point(x) is true for every x in [b, b + s),
\* and every x for which it was true before is still true.
C5_AddSeenByCheckPoint ==
    DidAdd =>
        /\ \A x \in range(call.base, call.size) : check_point(regions, x)
        /\ \A x \in Addr : check_point(pre, x) => check_point(regions, x)

\* An add of a non-empty range that absorbed a stored region.
C5_Witness ==
    /\ DidAdd
    /\ call.size > 0
    /\ \E r \in pre : r \notin regions
    /\ \E x \in range(call.base, call.size) : ~check_point(pre, x)

\* C6: add(b, s) immediately followed by subtract(b, s) restores the prior
\* set when [b, b + s) overlapped no stored region before the add, and
\* otherwise leaves the prior set with [b, b + s) subtracted from it.
C6_RoundTrip ==
    (DidSubtract /\ prior # <<>>) =>
        LET before == prior[1].pre
        IN  IF covered(before) \intersect range(call.base, call.size) = {}
            THEN regions = before
            ELSE regions = subtract(before, call.base, call.size)

\* The removal of C7: a successful allocation takes exactly the returned
\* range, which was covered, out of the covered set.
AllocationRemovesReturned ==
    (IsAllocation /\ ret.ok) =>
        /\ range(ret.base, ret.size) \subseteq covered(pre)
        /\ covered(regions) = covered(pre) \ range(ret.base, ret.size)

\* C7 as stated: a successful allocation removes exactly the returned range;
\* the same request repeated at once gets false from allocate_by_addr, and
\* None or a disjoint range from allocate_by_size.
C7_Original ==
    /\ AllocationRemovesReturned
    /\ (call.op = "allocate_by_addr" /\ prior # <<>>) => ~ret.ok
    /\ (call.op = "allocate_by_size" /\ prior # <<>> /\ ret.ok) =>
           range(ret.base, ret.size)
               \intersect range(prior[1].ret.base, prior[1].ret.size) = {}

\* C7 amended: a successful allocation removes exactly the returned range;
\* the same request repeated at once never returns a range overlapping the
\* first, and allocate_by_addr returns false the second time when size > 0.
C7_AllocationExclusive ==
    /\ AllocationRemovesReturned
    /\ (IsAllocation /\ prior # <<>> /\ ret.ok) =>
           range(ret.base, ret.size)
               \intersect range(prior[1].ret.base, prior[1].ret.size) = {}
    /\ (call.op = "allocate_by_addr" /\ prior # <<>> /\ call.size > 0) =>
           ~ret.ok

\* A non-empty allocate_by_addr repeated right after it succeeded.
C7_Witness ==
    /\ call.op = "allocate_by_addr"
    /\ call.size > 0
    /\ prior # <<>>
    /\ prior[1].ret.ok
    /\ ~ret.ok

\* The multiples of alignment at which [a, a + size) fits in one region.
feasible(regs, size, alignment) ==
    {a \in Addr :
        /\ a % alignment = 0
        /\ \E r \in regs : r.base <= a /\ a + size <= r.base + r.size}

\* The least multiple of alignment that is >= base.
least_multiple(base, alignment) ==
    CHOOSE m \in 0..(MaxAddr + MaxAlign) :
        /\ m % alignment = 0
        /\ m >= base
        /\ \A n \in 0..(MaxAddr + MaxAlign) :
               (n % alignment = 0 /\ n >= base) => m <= n

\* C8: with a power-of-two alignment, allocate_by_size returns Some((a, size))
\* with a the smallest multiple of alignment at which [a, a + size) fits in
\* one stored region, and None exactly when there is none; each region's
\* candidate is the least multiple of alignment >= its base.
C8_LowestAlignedFit ==
    (call.op = "allocate_by_size" /\ call.alignment \in PowersOfTwo) =>
        LET f == feasible(pre, call.size, call.alignment)
        IN  /\ ret.ok <=> f # {}
            /\ ret.ok =>
                   /\ ret.size = call.size
                   /\ ret.base \in f
                   /\ \A a \in f : ret.base <= a
            /\ \A r \in pre :
                   aligned_base(r.base, call.alignment - 1)
                       = least_multiple(r.base, call.alignment)

\* A successful allocate_by_size whose result is not the base of the first
\* stored region: an unaligned or too small region was passed over.
C8_Witness ==
    /\ call.op = "allocate_by_size"
    /\ call.alignment \in PowersOfTwo
    /\ call.alignment > 1
    /\ call.size > 0
    /\ ret.ok
    /\ \A r \in pre : r.base # ret.base
    /\ Cardinality(pre) > 1

\* C9: allocate_by_addr(base, size) returns true iff one stored region
\* holds the whole request; false when the range meets two stored regions
\* or is partly uncovered; on true the new state is that of subtract.
C9_AllocateByAddr ==
    call.op = "allocate_by_addr" =>
        LET req == range(call.base, call.size)
        IN  /\ ret.ok <=>
                   \E r \in pre :
                       /\ r.base <= call.base
                       /\ call.base + call.size <= r.base + r.size
            /\ (\E r1, r2 \in pre :
                    /\ r1 # r2
                    /\ range(r1.base, r1.size) \intersect req # {}
                    /\ range(r2.base, r2.size) \intersect req # {}) => ~ret.ok
            /\ ~(req \subseteq covered(pre)) => ~ret.ok
            /\ ret.ok => regions = subtract(pre, call.base, call.size)

\* An allocate_by_addr refused because its range meets two stored regions.
C9_Witness ==
    /\ call.op = "allocate_by_addr"
    /\ ~ret.ok
    /\ \E r1, r2 \in pre :
           /\ r1 # r2
           /\ range(r1.base, r1.size)
                  \intersect range(call.base, call.size) # {}
           /\ range(r2.base, r2.size)
                  \intersect range(call.base, call.size) # {}

\* C10: allocate_by_size returns None for every alignment that is not a
\* power of two, and a failed allocation leaves the stored set as it was.
C10_FailedAllocation ==
    /\ (call.op = "allocate_by_size" /\ call.alignment \notin PowersOfTwo) =>
           ~ret.ok
    /\ (IsAllocation /\ ~ret.ok) => regions = pre

\* An allocate_by_size refused for its alignment although a region could
\* have held the request.
C10_Witness ==
    /\ call.op = "allocate_by_size"
    /\ call.alignment \notin PowersOfTwo
    /\ call.alignment > 0
    /\ ~ret.ok
    /\ \E r \in pre : r.size >= call.size /\ call.size > 0
    /\ regions = pre


\* C11: add(base, 0) leaves the stored region set, and so len(), is_empty(),
\* check_region and check_point, exactly as they were before the call.
C11_ZeroSizeAddIsNoOp ==
    (DidAdd /\ call.size = 0) =>
        /\ regions = pre
        /\ len(regions) = len(pre)
        /\ is_empty(regions) = is_empty(pre)
        /\ \A x \in Addr : check_point(regions, x) = check_point(pre, x)

\* The stored regions touching [base, base + size) under the inclusive test.
touched(regs, base, size) ==
    {r \in regs : r.base <= base + size /\ r.base + r.size >= base}

\* The least / greatest element of a non-empty set of numbers.
least(S) == CHOOSE x \in S : \A y \in S : x <= y
greatest(S) == CHOOSE x \in S : \A y \in S : x >= y

\* C12: with T the stored regions touching the candidate, after add the set
\* is (old set minus T) plus the one region from min(base, min base of T) to
\* max(base + size, max end of T); no drained region survives beside it; an
\* add touching nothing stores (base, size); an add bridging two regions
\* leaves the merged bounds stored and the old bounds not.
C12_AddPostState ==
    DidAdd =>
        LET T == touched(pre, call.base, call.size)
            lo == least({call.base} \union {r.base : r \in T})
            hi == greatest({call.base + call.size}
                               \union {r.base + r.size : r \in T})
            merged == mk_region(lo, hi - lo)
        IN  /\ regions = (pre \ T) \union {merged}
            /\ \A r \in T : r \in regions => r = merged
            /\ T = {} => check_region(regions, call.base, call.size)
            /\ Cardinality(T) >= 2 =>
                   /\ check_region(regions, lo, hi - lo)
                   /\ \A r \in T : ~check_region(regions, r.base, r.size)
                   /\ len(regions) = len(pre) - Cardinality(T) + 1

\* An add of a non-empty range that bridged two stored regions and left a
\* third one alone.
C12_Witness ==
    /\ DidAdd
    /\ call.size > 0
    /\ Cardinality(touched(pre, call.base, call.size)) = 2
    /\ pre \ touched(pre, call.base, call.size) # {}

\* The pieces C13 gives for a touched region b.
pieces(b, base, size) ==
    LET b_end == b.base + b.size
        left == IF b.base < base
                THEN {mk_region(b.base, min(b_end, base) - b.base)}
                ELSE {}
        right == IF b_end > base + size
                 THEN {mk_region(max(b.base, base + size),
                                 b_end - max(b.base, base + size))}
                 ELSE {}
    IN  left \union right

\* C13: subtract replaces every touched region b by its left piece
\* [b.base, min(b.end, base)), present iff b.base < base, and its right piece
\* [max(b.base, base + size), b.end), present iff b.end > base + size; each
\* piece lies inside b, untouched regions stay, and len() grows by at most 1.
C13_SubtractPostState ==
    DidSubtract =>
        LET T == touched(pre, call.base, call.size)
        IN  /\ regions = (pre \ T)
                   \union UNION {pieces(b, call.base, call.size) : b \in T}
            /\ \A b \in T : \A q \in pieces(b, call.base, call.size) :
                   /\ b.base <= q.base
                   /\ q.base + q.size <= b.base + b.size
                   /\ q.size <= b.size
            /\ \A b \in T :
                   (call.base <= b.base
                        /\ b.base + b.size <= call.base + call.size)
                       => pieces(b, call.base, call.size) = {}
            /\ len(regions) <= len(pre) + 1

\* A subtract that trimmed the tail of one region and removed another whole.
C13_Witness ==
    /\ DidSubtract
    /\ call.size > 0
    /\ \E b \in pre : /\ b.base < call.base
                      /\ call.base < b.base + b.size
                      /\ mk_region(b.base, call.base - b.base) \in regions
    /\ \E b \in pre : /\ b.size > 0
                      /\ call.base <= b.base
                      /\ b.base + b.size <= call.base + call.size
                      /\ b \notin regions

\* C14: a subtract whose range shares no address with any stored half-open
\* interval leaves the stored region set and len() unchanged.
C14_DisjointSubtractIsNoOp ==
    (DidSubtract
        /\ covered(pre) \intersect range(call.base, call.size) = {}) =>
        /\ regions = pre
        /\ len(regions) = len(pre)


\* The maximal runs of consecutive addresses of a set, as regions.
runs(S) ==
    {mk_region(lo, hi - lo) : <<lo, hi>> \in
        {p \in Addr \X Addr :
            /\ p[1] < p[2]
            /\ \A x \in p[1]..(p[2] - 1) : x \in S
            /\ (p[1] - 1) \notin S
            /\ p[2] \notin S}}

\* C15: when every call uses size > 0, the stored regions are exactly the
\* maximal runs of the abstract covered set (add is union, subtract and
\* successful allocations are difference): no region has size zero and len()
\* is the number of runs.
C15_Canonical ==
    /\ regions = runs(abs)
    /\ \A r \in regions : r.size > 0
    /\ len(regions) = Cardinality(runs(abs))

\* Two stored runs, after an add, a subtract and a successful allocation
\* have all shaped the set.
C15_Witness ==
    /\ Cardinality(regions) = 2
    /\ call.op = "allocate_by_size"
    /\ ret.ok
    /\ regions # pre
    /\ abs # {}


\* C16: add(b1, s1) then add(b2, s2) yields the same stored set as
\* add(b2, s2) then add(b1, s1), and add(b, s) twice the same as once.
C16_AddOrderIndependent ==
    (call.op = "add" /\ prior # <<>>) =>
        LET first == prior[1]
        IN  /\ regions = add(add(first.pre, call.base, call.size),
                             first.base, first.size)
            /\ (first.base = call.base /\ first.size = call.size) =>
                   regions = pre

\* Two different adds in a row, each changing the set, the second meeting
\* what the first stored.
C16_Witness ==
    /\ call.op = "add"
    /\ prior # <<>>
    /\ <<prior[1].base, prior[1].size>> # <<call.base, call.size>>
    /\ prior[1].pre # {}
    /\ pre # prior[1].pre
    /\ regions # pre
    /\ Cardinality(regions) < Cardinality(pre)


\* The (size, alignment) requests allocate_by_size answers with None.
exhausted(regs) ==
    {sa \in Addr \X (0..MaxAlign) : ~allocate_by_size(regs, sa[1], sa[2]).ok}

\* C17: a request allocate_by_size has answered with None is still answered
\* with None after any call that is not an add: every step other than an
\* add keeps every exhausted request exhausted.
C17_ExhaustionStable ==
    /\ (call.op = "allocate_by_size" /\ ~ret.ok) =>
           <<call.size, call.alignment>> \in exhausted(regions)
    /\ ~DidAdd => exhausted(pre) \subseteq exhausted(regions)

\* A subtract that cut a region in two while a request of a power-of-two
\* alignment, small enough for a stored region, stayed exhausted.
C17_Witness ==
    /\ DidSubtract
    /\ Cardinality(regions) > Cardinality(pre)
    /\ \E sa \in exhausted(pre) :
           /\ sa[1] > 0
           /\ sa[2] \in PowersOfTwo
           /\ \E r \in pre : r.size >= sa[1]
           /\ \E r \in regions : r.size >= sa[1]

\* C18: with every base + size in range, no call evaluates a usize
\* subtraction with a negative result (new_end - new_base,
\* src.base - target.base, t_end - s_end, t_end - size, alignment - 1).
C18_NoUnderflow ==
    \A d \in diffs : d.value >= 0

\* A successful allocate_by_size that cut a region in two: it evaluated
\* alignment - 1 and the three subtractions of subtract_internal.
C18_Witness ==
    /\ call.op = "allocate_by_size"
    /\ ret.ok
    /\ {d.expr : d \in diffs}
           = {"alignment - 1", "src.base - target.base",
              "t_end - s_end", "t_end - size"}

====
